---------------------------- MODULE Spec2Model ----------------------------
(***************************************************************************)
(* Model of the sentiment analyser: the text utilities of src/core.py, the *)
(* lexicon scorer of src/fallback.py, the model cache and dispatch of      *)
(* src/strategy.py and the command line of src/service.py.                 *)
(*                                                                         *)
(* Texts.  A text is a sequence of symbols.  A symbol stands for one       *)
(* maximal run of characters of the same kind: a word chunk ("good",       *)
(* "don't", "GOOD"), one whitespace character (" ", "\t", "\n"), one       *)
(* punctuation character ("!", ".", ...) or one emoji glyph, written by    *)
(* its code points ("U+1F60A").  A token whose stripped form is a single   *)
(* chunk is that word; a stripped form of several symbols (a chunk with a  *)
(* glyph or an interior "!" attached) is a string that no lexicon holds,   *)
(* because no lexicon entry is the concatenation of symbols used here.     *)
(*                                                                         *)
(* Numbers.  The scorer's floats are modelled exactly.  A score is a       *)
(* record [a, q] that stands for (a / 100) / sqrt(q / 25): a is the sum of *)
(* the contributions in hundredths and q is 25 times the square of the     *)
(* length divisor (1, 1.2, 1.8 or sqrt(n)).  Comparisons are decided by    *)
(* sign and by cross-multiplied squares, so they are those of the reals;   *)
(* binary floating point differs from them only by rounding in the last    *)
(* place (0.3 / 3.0 is 0.09999999999999999 in the program, 0.1 here).      *)
(***************************************************************************)
EXTENDS Integers, Sequences, FiniteSets, TLC

VARIABLES
    \* analyze_fallback_score, src/fallback.py:48-137 (one call in progress)
    text, normalized, tokens, i, score,
    negation_active, booster_active, dampener_active, pc, result,
    \* label_from_score, src/core.py:47-75 (one call)
    lscore, lpos, lneg, label,
    \* src/strategy.py: the module globals, the storage and the callers
    _MODEL_CACHE, _MODEL_LOADED, storage, tpc, targ, tmodel, tret,
    started, probes, loads, cacheWrites, completed, firstOutcome,
    \* src/service.py: one run of main() as a process
    environ, argv, cpc, stdout, stderr, exit_code

fvars == <<text, normalized, tokens, i, score,
           negation_active, booster_active, dampener_active, pc, result>>
lvars == <<lscore, lpos, lneg, label>>
svars == <<_MODEL_CACHE, _MODEL_LOADED, storage, tpc, targ, tmodel, tret,
           started, probes, loads, cacheWrites, completed, firstOutcome>>
cvars == <<environ, argv, cpc, stdout, stderr, exit_code>>
vars == <<fvars, lvars, svars, cvars>>

---------------------------------------------------------------------------
(* Bounds of the model *)

\* tokens of a freely composed text
MaxTail == 2
\* unknown words in front of the last token of a long text
MaxFill == 9
\* label_from_score gets the multiples of 0.05 from -MaxThreshold to MaxThreshold
MaxThreshold == 3
\* calls made in one run of the process
MaxCalls == 3
\* concurrent callers
NumThreads == 2

---------------------------------------------------------------------------
(* src/fallback.py:10-45: the lexicons *)

POS_WORDS ==
    {"love", "great", "amazing", "excellent", "fantastic",
     "wonderful", "awesome", "happy", "best", "enjoyed",
     "recommend", "perfect", "brilliant", "outstanding",
     "good", "nice", "fine", "super", "beautiful"}

NEG_WORDS ==
    {"hate", "terrible", "awful", "horrible", "worst",
     "bad", "disappointed", "garbage", "waste", "broken",
     "frustrated", "upset", "never", "poor", "useless",
     "worst", "disgusting", "pathetic"}

NEGATORS ==
    {"not", "no", "never", "don't", "doesn't", "didn't",
     "won't", "can't", "cannot", "neither", "nor"}

BOOSTERS ==
    {"very", "extremely", "absolutely", "really", "so",
     "highly", "completely", "totally", "utterly"}

DAMPENERS ==
    {"somewhat", "slightly", "barely", "hardly", "maybe",
     "perhaps", "kind of", "sort of"}

EMOJI_POS ==
    {"U+1F60A", "U+1F600", "U+1F603", "U+2764U+FE0F", "U+1F44D", "U+1F389", "U+2728"}

EMOJI_NEG ==
    {"U+1F621", "U+1F622", "U+1F61E", "U+1F44E", "U+1F494", "U+1F620"}

---------------------------------------------------------------------------
(* Symbols *)

WHITESPACE == {" ", "\t", "\n"}

\* the characters str.strip(".,!?;:\"'") removes, src/fallback.py:78
STRIP_CHARS == {".", ",", "!", "?", ";", ":", "\"", "'"}

\* chunks with upper-case letters, and what str.lower() makes of them
UPPER == {"GOOD", "Bad", "NOT", "Very"}

\* a letter whose upper-case form does not lower back to it: "U+00DF" is the
\* sharp s, "U+00DF".upper() is "SS" and "SS".lower() is "ss"
SHARP_S == "U+00DF"

\* the symbols that are not ASCII
NON_ASCII == EMOJI_POS \cup EMOJI_NEG \cup {SHARP_S}

\* the cased chunks of the texts, in the forms they are written in
LETTERS ==
    {"good", "GOOD", "bad", "Bad", "BAD", "not", "NOT",
     "very", "Very", "VERY", "ss", "SS", SHARP_S}

\* str.lower() that leaves every character as it is
Lower_none(s) == s

Lower(s) ==
    CASE s = "GOOD" -> "good"
      [] s \in {"Bad", "BAD"} -> "bad"
      [] s = "NOT" -> "not"
      [] s \in {"Very", "VERY"} -> "very"
      [] s = "SS" -> "ss"
      [] s = "I" -> "i"
      [] s = "This" -> "this"
      [] s = "It" -> "it"
      [] OTHER -> s

\* str.upper(), on the symbols of LETTERS
Upper(s) ==
    CASE s \in {"good", "GOOD"} -> "GOOD"
      [] s \in {"bad", "Bad", "BAD"} -> "BAD"
      [] s \in {"not", "NOT"} -> "NOT"
      [] s \in {"very", "Very", "VERY"} -> "VERY"
      [] s \in {"ss", "SS", SHARP_S} -> "SS"
      [] OTHER -> s

\* how a lexicon entry is written as text: the two-word dampeners hold a space
Spell(w) ==
    CASE w = "kind of" -> <<"kind", " ", "of">>
      [] w = "sort of" -> <<"sort", " ", "of">>
      [] OTHER -> <<w>>

---------------------------------------------------------------------------
(* src/core.py:10-44: normalize and tokenize *)

\* text.lower()
LowerAll(t) == [k \in 1..Len(t) |-> Lower(t[k])]

\* re.sub(r'\s+', ' ', text): every maximal run of whitespace becomes one space
RECURSIVE Collapse(_)
Collapse(t) ==
    IF t = <<>> THEN <<>>
    ELSE IF Head(t) \in WHITESPACE
         THEN IF Len(t) > 1 /\ t[2] \in WHITESPACE
              THEN Collapse(Tail(t))
              ELSE <<" ">> \o Collapse(Tail(t))
         ELSE <<Head(t)>> \o Collapse(Tail(t))

\* text.strip()
RECURSIVE StripLeft(_)
StripLeft(t) ==
    IF t # <<>> /\ Head(t) \in WHITESPACE THEN StripLeft(Tail(t)) ELSE t

RECURSIVE StripRight(_)
StripRight(t) ==
    IF t # <<>> /\ t[Len(t)] \in WHITESPACE
    THEN StripRight(SubSeq(t, 1, Len(t) - 1))
    ELSE t

normalize(t) == StripRight(StripLeft(Collapse(LowerAll(t))))

\* str.split(): the maximal runs of non-whitespace, in order
RECURSIVE Split(_, _)
Split(t, cur) ==
    IF t = <<>>
    THEN IF cur = <<>> THEN <<>> ELSE <<cur>>
    ELSE IF Head(t) \in WHITESPACE
         THEN IF cur = <<>> THEN Split(Tail(t), <<>>)
              ELSE <<cur>> \o Split(Tail(t), <<>>)
         ELSE Split(Tail(t), Append(cur, Head(t)))

tokenize(t) == Split(normalize(t), <<>>)

---------------------------------------------------------------------------
(* Exact arithmetic on scores *)

\* the number c / 100
Real(c) == [a |-> c, q |-> 25]

\* x <= y for x = x.a / sqrt(x.q) and y = y.a / sqrt(y.q)
Leq(x, y) ==
    IF x.a <= 0 /\ y.a >= 0 THEN TRUE
    ELSE IF x.a >= 0 /\ y.a <= 0 THEN FALSE
    ELSE IF x.a > 0 THEN x.a * x.a * y.q <= y.a * y.a * x.q
    ELSE x.a * x.a * y.q >= y.a * y.a * x.q

Lt(x, y) == ~Leq(y, x)

Eq(x, y) == Leq(x, y) /\ Leq(y, x)

Abs(x) == [a |-> IF x.a < 0 THEN -x.a ELSE x.a, q |-> x.q]

---------------------------------------------------------------------------
(* src/core.py:47-89: label_from_score and clamp_unit *)

POS_THRESHOLD == 10
NEG_THRESHOLD == -10

\* label_from_score with the positive boundary exclusive
label_from_score_strict(s, pos_threshold, neg_threshold) ==
    IF Lt(pos_threshold, s) THEN "positive"
    ELSE IF Leq(s, neg_threshold) THEN "negative"
    ELSE "neutral"

label_from_score(s, pos_threshold, neg_threshold) ==
    IF Leq(pos_threshold, s) THEN "positive"
    ELSE IF Leq(s, neg_threshold) THEN "negative"
    ELSE "neutral"

\* clamp_unit without the lower bound
clamp_unit_upper_only(x) == IF Lt(x, Real(100)) THEN x ELSE Real(100)

\* min(1.0, x), then max(-1.0, .)
clamp_unit(x) ==
    LET m == IF Lt(x, Real(100)) THEN x ELSE Real(100)
    IN IF Lt(Real(-100), m) THEN m ELSE Real(-100)

---------------------------------------------------------------------------
(* src/fallback.py:48-137: analyze_fallback_score *)

\* token.strip(".,!?;:\"'")
RECURSIVE StripPunctLeft(_)
StripPunctLeft(t) ==
    IF t # <<>> /\ Head(t) \in STRIP_CHARS THEN StripPunctLeft(Tail(t)) ELSE t

RECURSIVE StripPunctRight(_)
StripPunctRight(t) ==
    IF t # <<>> /\ t[Len(t)] \in STRIP_CHARS
    THEN StripPunctRight(SubSeq(t, 1, Len(t) - 1))
    ELSE t

StripPunct(token) == StripPunctRight(StripPunctLeft(token))

\* word in LEXICON, for the stripped form of a token
InLexicon(word, lexicon) == Len(word) = 1 /\ word[1] \in lexicon

\* the state the loop carries from token to token, lines 71-74
LoopInit ==
    [score |-> 0, negation_active |-> FALSE,
     booster_active |-> FALSE, dampener_active |-> FALSE]

\* the base contribution of a word in hundredths, lines 94-99
WordScore(word) ==
    IF InLexicon(word, POS_WORDS) THEN 70
    ELSE IF InLexicon(word, NEG_WORDS) THEN -70
    ELSE 0

\* a loop body in which an unknown word leaves the flags as they are
LoopBody_unknown_keeps_flags(st, token) ==
    LET word == StripPunct(token)
    IN IF InLexicon(word, NEGATORS)
       THEN [st EXCEPT !.negation_active = TRUE]
       ELSE IF InLexicon(word, BOOSTERS)
       THEN [st EXCEPT !.booster_active = TRUE]
       ELSE IF InLexicon(word, DAMPENERS)
       THEN [st EXCEPT !.dampener_active = TRUE]
       ELSE IF WordScore(word) = 0
       THEN st
       ELSE LET w0 == WordScore(word)
                w1 == IF st.negation_active THEN -w0 ELSE w0
                w2 == IF st.booster_active THEN (w1 * 18) \div 10 ELSE w1
                w3 == IF st.dampener_active THEN (w2 * 5) \div 10 ELSE w2
            IN [score |-> st.score + w3, negation_active |-> FALSE,
                booster_active |-> FALSE, dampener_active |-> FALSE]

\* one pass of the loop body, lines 76-114
LoopBody(st, token) ==
    LET word == StripPunct(token)
    IN IF InLexicon(word, NEGATORS)
       THEN [st EXCEPT !.negation_active = TRUE]
       ELSE IF InLexicon(word, BOOSTERS)
       THEN [st EXCEPT !.booster_active = TRUE]
       ELSE IF InLexicon(word, DAMPENERS)
       THEN [st EXCEPT !.dampener_active = TRUE]
       ELSE LET w0 == WordScore(word)
                w1 == IF st.negation_active THEN -w0 ELSE w0
                w2 == IF st.booster_active THEN (w1 * 18) \div 10 ELSE w1
                w3 == IF st.dampener_active THEN (w2 * 5) \div 10 ELSE w2
            IN [score |-> st.score + w3, negation_active |-> FALSE,
                booster_active |-> FALSE, dampener_active |-> FALSE]

\* normalized.count("!")
RECURSIVE Count(_, _)
Count(t, c) ==
    IF t = <<>> THEN 0
    ELSE (IF Head(t) = c THEN 1 ELSE 0) + Count(Tail(t), c)

\* emoji in text
Contains(t, c) == \E k \in 1..Len(t) : t[k] = c

\* Punctuation adding 0.1 once, however many "!" there are
Punctuation_once(s, norm) == IF Count(norm, "!") > 0 THEN s + 10 ELSE s

\* lines 117-119: 0.1 for every "!" of the normalized text
Punctuation(s, norm) ==
    LET exclamation_count == Count(norm, "!")
    IN IF exclamation_count > 0 THEN s + 10 * exclamation_count ELSE s

\* Emoji without the loop over EMOJI_NEG
Emoji_pos_only(s, raw) == s + 30 * Cardinality({e \in EMOJI_POS : Contains(raw, e)})

\* lines 122-127: 0.3 for every glyph of a set that the raw text holds
Emoji(s, raw) ==
    s + 30 * Cardinality({e \in EMOJI_POS : Contains(raw, e)})
      - 30 * Cardinality({e \in EMOJI_NEG : Contains(raw, e)})

\* 25 times the square of the length divisor, lines 131-135
Divisor2(n) ==
    IF n = 0 THEN 25
    ELSE IF n <= 3
         THEN (IF 6 * n <= 10 THEN 25 ELSE 9 * n * n)
         ELSE 25 * n

\* lines 131-137: length normalization and clamp
LengthNormalize(s, n) == clamp_unit([a |-> s, q |-> Divisor2(n)])

RECURSIVE ScoreLoop(_, _)
ScoreLoop(st, toks) ==
    IF toks = <<>> THEN st ELSE ScoreLoop(LoopBody(st, Head(toks)), Tail(toks))

analyze_fallback_score(t) ==
    LET norm == normalize(t)
        toks == tokenize(norm)
        s == ScoreLoop(LoopInit, toks).score
    IN LengthNormalize(Emoji(Punctuation(s, norm), t), Len(toks))

\* lines 140-150
analyze_fallback(t) ==
    label_from_score(analyze_fallback_score(t), Real(POS_THRESHOLD), Real(NEG_THRESHOLD))

---------------------------------------------------------------------------
(* The texts the scorer is run on *)

\* the words of freely composed texts: one of each lexicon, the word of two
\* lexicons, and a word of none
WORDS == {"good", "bad", "not", "very", "somewhat", "never", "okay"}

TokenForms ==
    {<<w>> : w \in WORDS} \cup {<<w, "!">> : w \in WORDS}
    \cup {<<"U+1F60A">>, <<"U+1F621">>, <<"!">>, <<"GOOD">>}

RECURSIVE Join(_)
Join(toks) ==
    IF toks = <<>> THEN <<>>
    ELSE IF Len(toks) = 1 THEN Head(toks)
    ELSE Head(toks) \o <<" ">> \o Join(Tail(toks))

RECURSIVE Filler(_)
Filler(k) == IF k = 0 THEN <<>> ELSE <<<<"okay">>>> \o Filler(k - 1)

\* up to MaxTail tokens, single spaces between them
ShortTexts ==
    {Join(ts) : ts \in UNION {[1..n -> TokenForms] : n \in 0..MaxTail}}

\* up to MaxFill unknown words and one more token
LongTexts ==
    {Join(Filler(k) \o <<f>>) : k \in 1..MaxFill, f \in TokenForms}

\* a modifier and a lexicon word, and every lexicon word alone
LexiconTexts ==
    {Spell(m) \o <<" ">> \o Spell(w) :
        m \in NEGATORS \cup BOOSTERS \cup DAMPENERS, w \in POS_WORDS \cup NEG_WORDS}
    \cup {Spell(w) : w \in POS_WORDS \cup NEG_WORDS}

\* two tokens in upper case and surrounded by runs of whitespace
MessyTexts ==
    {<<" ", "\t">> \o <<a>> \o <<"\n", " ">> \o <<b, "!">> \o <<"\n">> :
        a \in UPPER, b \in UPPER}

\* two cased chunks between runs of whitespace
CaseTexts ==
    {<<" ", a, "\t", "\n", b, " ">> : a \in LETTERS, b \in LETTERS}

\* MaxTail + 1 words, single spaces between them
WordTexts ==
    {Join(ts) : ts \in [1..(MaxTail + 1) -> {<<w>> : w \in WORDS}]}

Texts ==
    ShortTexts \cup LongTexts \cup LexiconTexts \cup MessyTexts \cup CaseTexts
    \cup WordTexts

---------------------------------------------------------------------------
(* One call of analyze_fallback_score, step by step *)

FallbackIdle ==
    /\ normalized = <<>> /\ tokens = <<>> /\ i = 0 /\ score = 0
    /\ negation_active = FALSE /\ booster_active = FALSE
    /\ dampener_active = FALSE /\ result = Real(0)

LabelIdle == lscore = 0 /\ lpos = 0 /\ lneg = 0 /\ label = "none"

\* lines 68-74
Tokenize ==
    /\ pc = "start"
    /\ normalized' = normalize(text)
    /\ tokens' = tokenize(normalized')
    /\ score' = LoopInit.score
    /\ negation_active' = LoopInit.negation_active
    /\ booster_active' = LoopInit.booster_active
    /\ dampener_active' = LoopInit.dampener_active
    /\ i' = 1
    /\ pc' = "loop"
    /\ UNCHANGED <<text, result>>

\* lines 76-114, one token
LoopIter ==
    /\ pc = "loop"
    /\ i <= Len(tokens)
    /\ LET st == LoopBody([score |-> score, negation_active |-> negation_active,
                           booster_active |-> booster_active,
                           dampener_active |-> dampener_active], tokens[i])
       IN /\ score' = st.score
          /\ negation_active' = st.negation_active
          /\ booster_active' = st.booster_active
          /\ dampener_active' = st.dampener_active
    /\ i' = i + 1
    /\ UNCHANGED <<text, normalized, tokens, pc, result>>

\* lines 117-119
PunctuationStep ==
    /\ pc = "loop"
    /\ i > Len(tokens)
    /\ score' = Punctuation(score, normalized)
    /\ pc' = "emoji"
    /\ UNCHANGED <<text, normalized, tokens, i, negation_active,
                   booster_active, dampener_active, result>>

\* lines 122-127
EmojiStep ==
    /\ pc = "emoji"
    /\ score' = Emoji(score, text)
    /\ pc' = "normalize"
    /\ UNCHANGED <<text, normalized, tokens, i, negation_active,
                   booster_active, dampener_active, result>>

\* lines 131-137
ReturnScore ==
    /\ pc = "normalize"
    /\ result' = LengthNormalize(score, Len(tokens))
    /\ pc' = "done"
    /\ UNCHANGED <<text, normalized, tokens, i, score, negation_active,
                   booster_active, dampener_active>>

---------------------------------------------------------------------------
(* src/ml.py:124-190 and src/strategy.py: storage, loading and dispatch *)

Threads == 1..NumThreads

Paths == {"models/sentiment.joblib", "other.joblib"}

\* what a path holds: nothing, bytes joblib cannot read, a readable object
\* without the "vectorizer", "model" and "labels" entries, or a trained model
Contents == {"missing", "corrupt", "incompatible", "valid"}

StrategyTexts == {<<"not", " ", "good">>, <<"okay">>}

NoRet == [kind |-> "none"]

NoArg == [fn |-> "none", text |-> <<>>, model_path |-> "none"]

\* joblib.load(path), src/ml.py:136: the object, or an exception
load_model(content) ==
    CASE content = "valid" -> [raised |-> FALSE, obj |-> "model"]
      [] content = "incompatible" -> [raised |-> FALSE, obj |-> "artifact"]
      [] OTHER -> [raised |-> TRUE, obj |-> "None"]

\* analyze_ml / analyze_ml_score, src/ml.py:139-190: predict_proba reads
\* model_dict["vectorizer"], ["model"], ["labels"] and raises KeyError without them
analyze_ml(model, arg) ==
    IF model = "model"
    THEN [kind |-> "return", backend |-> "ml", fn |-> arg.fn]
    ELSE [kind |-> "raise", backend |-> "ml", fn |-> arg.fn]

\* the else branches of src/strategy.py:60-61 and 79-80
Fallback(arg) ==
    IF arg.fn = "label"
    THEN [kind |-> "return", backend |-> "fallback", fn |-> "label",
          value |-> analyze_fallback(arg.text)]
    ELSE [kind |-> "return", backend |-> "fallback", fn |-> "score",
          value |-> analyze_fallback_score(arg.text)]

StrategyIdle ==
    /\ _MODEL_CACHE = "None" /\ _MODEL_LOADED = FALSE
    /\ tpc = [t \in Threads |-> "idle"]
    /\ targ = [t \in Threads |-> NoArg]
    /\ tmodel = [t \in Threads |-> "None"]
    /\ tret = [t \in Threads |-> NoRet]
    /\ started = 0 /\ probes = 0 /\ loads = 0 /\ cacheWrites = 0
    /\ completed = 0 /\ firstOutcome = "None"

\* a caller enters analyze_strategy or analyze_strategy_score, lines 41, 64
Begin(t, fn, txt, path) ==
    /\ tpc[t] = "idle"
    /\ started < MaxCalls
    /\ started' = started + 1
    /\ targ' = [targ EXCEPT ![t] = [fn |-> fn, text |-> txt, model_path |-> path]]
    /\ tret' = [tret EXCEPT ![t] = NoRet]
    /\ tmodel' = [tmodel EXCEPT ![t] = "None"]
    /\ tpc' = [tpc EXCEPT ![t] = "check"]
    /\ UNCHANGED <<_MODEL_CACHE, _MODEL_LOADED, storage, probes, loads,
                   cacheWrites, completed, firstOutcome>>

\* _load_model_once, line 25: if _MODEL_LOADED
LoadCheck(t) ==
    /\ tpc[t] = "check"
    /\ tpc' = [tpc EXCEPT ![t] = IF _MODEL_LOADED THEN "cached" ELSE "mark"]
    /\ UNCHANGED <<_MODEL_CACHE, _MODEL_LOADED, storage, targ, tmodel, tret,
                   started, probes, loads, cacheWrites, completed, firstOutcome>>

\* line 26: return _MODEL_CACHE
LoadCached(t) ==
    /\ tpc[t] = "cached"
    /\ tmodel' = [tmodel EXCEPT ![t] = _MODEL_CACHE]
    /\ tpc' = [tpc EXCEPT ![t] = "dispatch"]
    /\ UNCHANGED <<_MODEL_CACHE, _MODEL_LOADED, storage, targ, tret,
                   started, probes, loads, cacheWrites, completed, firstOutcome>>

\* LoadMark that leaves _MODEL_LOADED as it is
LoadMark_forget(t) ==
    /\ tpc[t] = "mark"
    /\ tpc' = [tpc EXCEPT ![t] = "exists"]
    /\ UNCHANGED <<_MODEL_CACHE, _MODEL_LOADED, storage, targ, tmodel, tret,
                   started, probes, loads, cacheWrites, completed, firstOutcome>>

\* line 28: _MODEL_LOADED = True
LoadMark(t) ==
    /\ tpc[t] = "mark"
    /\ _MODEL_LOADED' = TRUE
    /\ tpc' = [tpc EXCEPT ![t] = "exists"]
    /\ UNCHANGED <<_MODEL_CACHE, storage, targ, tmodel, tret,
                   started, probes, loads, cacheWrites, completed, firstOutcome>>

\* lines 30-31: if not Path(model_path).exists(): return None
LoadExists(t) ==
    /\ tpc[t] = "exists"
    /\ probes' = probes + 1
    /\ IF storage[targ[t].model_path] = "missing"
       THEN /\ tmodel' = [tmodel EXCEPT ![t] = "None"]
            /\ tpc' = [tpc EXCEPT ![t] = "dispatch"]
       ELSE /\ tpc' = [tpc EXCEPT ![t] = "load"]
            /\ UNCHANGED tmodel
    /\ UNCHANGED <<_MODEL_CACHE, _MODEL_LOADED, storage, targ, tret,
                   started, loads, cacheWrites, completed, firstOutcome>>

\* lines 33-38: _MODEL_CACHE = load_model(model_path), or None on an exception
LoadModel(t) ==
    /\ tpc[t] = "load"
    /\ loads' = loads + 1
    /\ LET r == load_model(storage[targ[t].model_path])
       IN IF r.raised
          THEN /\ tmodel' = [tmodel EXCEPT ![t] = "None"]
               /\ UNCHANGED <<_MODEL_CACHE, cacheWrites>>
          ELSE /\ _MODEL_CACHE' = r.obj
               /\ cacheWrites' = cacheWrites + 1
               /\ tmodel' = [tmodel EXCEPT ![t] = r.obj]
    /\ tpc' = [tpc EXCEPT ![t] = "dispatch"]
    /\ UNCHANGED <<_MODEL_LOADED, storage, targ, tret,
                   started, probes, completed, firstOutcome>>

\* lines 57-61 and 76-80: the model's answer, or the fallback's; the call
\* returns and its locals are gone
Dispatch(t) ==
    /\ tpc[t] = "dispatch"
    /\ tret' = [tret EXCEPT ![t] =
                  IF tmodel[t] # "None" THEN analyze_ml(tmodel[t], targ[t])
                  ELSE Fallback(targ[t])]
    /\ completed' = completed + 1
    /\ firstOutcome' = IF completed = 0 THEN tmodel[t] ELSE firstOutcome
    /\ targ' = [targ EXCEPT ![t] = NoArg]
    /\ tmodel' = [tmodel EXCEPT ![t] = "None"]
    /\ tpc' = [tpc EXCEPT ![t] = "idle"]
    /\ UNCHANGED <<_MODEL_CACHE, _MODEL_LOADED, storage,
                   started, probes, loads, cacheWrites>>

---------------------------------------------------------------------------
(* One call of label_from_score *)

LabelCall ==
    /\ label = "none"
    /\ label' = label_from_score(Real(5 * lscore), Real(5 * lpos), Real(5 * lneg))
    /\ UNCHANGED <<lscore, lpos, lneg>>

---------------------------------------------------------------------------
(* The command line, src/service.py:17-30 and 90-137 *)

\* the texts of tests/test_cli.py, and no text
CliTexts ==
    {<<"I", " ", "love", " ", "pizza", "!">>,
     <<"This", " ", "is", " ", "terrible">>,
     <<"It", " ", "works", " ", "fine">>,
     <<>>}

\* what argparse makes of the command line, lines 105-126
Argvs ==
    [text : CliTexts, score : BOOLEAN, model : Paths, test : BOOLEAN]

NoArgv == [text |-> <<>>, score |-> FALSE, model |-> "none", test |-> FALSE]

NoOutput == [line |-> "none"]

CliIdle ==
    /\ environ = [ENABLE_HTTP |-> "0"]
    /\ argv = NoArgv
    /\ cpc = "idle"
    /\ stdout = NoOutput /\ stderr = NoOutput
    /\ exit_code = -1

\* the digits f"{result:.3f}" prints, line 27: the sign and the thousandths
\* nearest to the score (a/100)/sqrt(q/25), that is to 50a/sqrt(q)
Format3f(r) ==
    LET a == IF r.a < 0 THEN -r.a ELSE r.a
        m == CHOOSE m \in 0..1000 :
                 /\ m = 0 \/ (2 * m - 1) * (2 * m - 1) * r.q <= (100 * a) * (100 * a)
                 /\ (100 * a) * (100 * a) < (2 * m + 1) * (2 * m + 1) * r.q
    IN [line |-> "score", sign |-> IF r.a < 0 THEN "-" ELSE "", thousandths |-> m]

\* what run_cli prints for the value the strategy returned, lines 25-30
Printed(ret) ==
    IF ret.backend = "ml" THEN [line |-> "ml", fn |-> ret.fn]
    ELSE IF ret.fn = "label" THEN [line |-> "label", label |-> ret.value]
    ELSE Format3f(ret.value)

\* lines 93-96: ENABLE_HTTP=1 serves over HTTP and takes no command line
MainHttp ==
    /\ cpc = "main"
    /\ environ.ENABLE_HTTP = "1"
    /\ cpc' = "serving"
    /\ UNCHANGED <<environ, argv, stdout, stderr, exit_code>>

\* lines 128-131: --test exits with the return code of pytest
MainTest ==
    /\ cpc = "main"
    /\ environ.ENABLE_HTTP # "1"
    /\ argv.test
    /\ \E rc \in {0, 1} : exit_code' = rc
    /\ stdout' = [line |-> "pytest"]
    /\ cpc' = "exited"
    /\ UNCHANGED <<environ, argv, stderr>>

\* lines 133-135: no text prints the help and exits with 2
MainHelp ==
    /\ cpc = "main"
    /\ environ.ENABLE_HTTP # "1"
    /\ ~argv.test
    /\ argv.text = <<>>
    /\ stdout' = [line |-> "help"]
    /\ exit_code' = 2
    /\ cpc' = "exited"
    /\ UNCHANGED <<environ, argv, stderr>>

\* line 137 and lines 25-30: run_cli calls analyze_strategy_score or
\* analyze_strategy with the text and the model path
RunCli ==
    /\ cpc = "main"
    /\ environ.ENABLE_HTTP # "1"
    /\ ~argv.test
    /\ argv.text # <<>>
    /\ Begin(1, IF argv.score THEN "score" ELSE "label", argv.text, argv.model)
    /\ cpc' = "run_cli"
    /\ UNCHANGED <<environ, argv, stdout, stderr, exit_code>>

\* a step of the call run_cli made
CliCall(step) ==
    /\ cpc = "run_cli"
    /\ step
    /\ UNCHANGED cvars

\* lines 27 and 30: print the result; main returns and the process exits with 0
PrintResult ==
    /\ cpc = "run_cli"
    /\ tpc[1] = "idle"
    /\ tret[1].kind = "return"
    /\ stdout' = Printed(tret[1])
    /\ exit_code' = 0
    /\ cpc' = "exited"
    /\ UNCHANGED <<environ, argv, stderr>>

\* an exception of the call leaves run_cli and main uncaught: the interpreter
\* prints the traceback on stderr and exits with 1
Uncaught ==
    /\ cpc = "run_cli"
    /\ tpc[1] = "idle"
    /\ tret[1].kind = "raise"
    /\ stderr' = [line |-> "traceback"]
    /\ exit_code' = 1
    /\ cpc' = "exited"
    /\ UNCHANGED <<environ, argv, stdout>>

---------------------------------------------------------------------------
(* Specifications *)

\* the lexicon scorer on every text of Texts
Init ==
    /\ text \in Texts
    /\ pc = "start"
    /\ FallbackIdle
    /\ LabelIdle
    /\ storage = [p \in Paths |-> "missing"]
    /\ StrategyIdle
    /\ CliIdle

Next ==
    \/ Tokenize /\ UNCHANGED <<lvars, svars, cvars>>
    \/ LoopIter /\ UNCHANGED <<lvars, svars, cvars>>
    \/ PunctuationStep /\ UNCHANGED <<lvars, svars, cvars>>
    \/ EmojiStep /\ UNCHANGED <<lvars, svars, cvars>>
    \/ ReturnScore /\ UNCHANGED <<lvars, svars, cvars>>

Spec == Init /\ [][Next]_vars

\* label_from_score on every score and pair of thresholds of the range
InitLabel ==
    /\ text = <<>> /\ pc = "idle" /\ FallbackIdle
    /\ lscore \in -MaxThreshold..MaxThreshold
    /\ lpos \in -MaxThreshold..MaxThreshold
    /\ lneg \in -MaxThreshold..MaxThreshold
    /\ label = "none"
    /\ storage = [p \in Paths |-> "missing"]
    /\ StrategyIdle
    /\ CliIdle

NextLabel == LabelCall /\ UNCHANGED <<fvars, svars, cvars>>

SpecLabel == InitLabel /\ [][NextLabel]_vars

\* the callers of analyze_strategy and analyze_strategy_score
InitStrategy ==
    /\ text = <<>> /\ pc = "idle" /\ FallbackIdle
    /\ LabelIdle
    /\ storage \in [Paths -> Contents]
    /\ StrategyIdle
    /\ CliIdle

\* one caller: a call begins when the call before it has returned
NextSeq ==
    \/ \E fn \in {"label", "score"}, txt \in StrategyTexts, p \in Paths :
          Begin(1, fn, txt, p) /\ UNCHANGED <<fvars, lvars, cvars>>
    \/ LoadCheck(1) /\ UNCHANGED <<fvars, lvars, cvars>>
    \/ LoadCached(1) /\ UNCHANGED <<fvars, lvars, cvars>>
    \/ LoadMark(1) /\ UNCHANGED <<fvars, lvars, cvars>>
    \/ LoadExists(1) /\ UNCHANGED <<fvars, lvars, cvars>>
    \/ LoadModel(1) /\ UNCHANGED <<fvars, lvars, cvars>>
    \/ Dispatch(1) /\ UNCHANGED <<fvars, lvars, cvars>>

SpecSeq == InitStrategy /\ [][NextSeq]_vars

\* callers in threads: the steps of their calls interleave
NextConc ==
    \/ \E t \in Threads, fn \in {"label", "score"}, txt \in StrategyTexts, p \in Paths :
          Begin(t, fn, txt, p) /\ UNCHANGED <<fvars, lvars, cvars>>
    \/ \E t \in Threads : LoadCheck(t) /\ UNCHANGED <<fvars, lvars, cvars>>
    \/ \E t \in Threads : LoadCached(t) /\ UNCHANGED <<fvars, lvars, cvars>>
    \/ \E t \in Threads : LoadMark(t) /\ UNCHANGED <<fvars, lvars, cvars>>
    \/ \E t \in Threads : LoadExists(t) /\ UNCHANGED <<fvars, lvars, cvars>>
    \/ \E t \in Threads : LoadModel(t) /\ UNCHANGED <<fvars, lvars, cvars>>
    \/ \E t \in Threads : Dispatch(t) /\ UNCHANGED <<fvars, lvars, cvars>>

SpecConc == InitStrategy /\ [][NextConc]_vars

\* one process running main(): its environment, command line and storage
InitCli ==
    /\ text = <<>> /\ pc = "idle" /\ FallbackIdle
    /\ LabelIdle
    /\ storage \in [Paths -> Contents]
    /\ StrategyIdle
    /\ environ \in [ENABLE_HTTP : {"0", "1"}]
    /\ argv \in Argvs
    /\ cpc = "main"
    /\ stdout = NoOutput /\ stderr = NoOutput
    /\ exit_code = -1

\* the process makes one call, the first of the process, so line 26 of
\* _load_model_once (the cached model) is not reached
NextCli ==
    \/ MainHttp /\ UNCHANGED <<fvars, lvars, svars>>
    \/ MainTest /\ UNCHANGED <<fvars, lvars, svars>>
    \/ MainHelp /\ UNCHANGED <<fvars, lvars, svars>>
    \/ RunCli /\ UNCHANGED <<fvars, lvars>>
    \/ CliCall(LoadCheck(1)) /\ UNCHANGED <<fvars, lvars>>
    \/ CliCall(LoadMark(1)) /\ UNCHANGED <<fvars, lvars>>
    \/ CliCall(LoadExists(1)) /\ UNCHANGED <<fvars, lvars>>
    \/ CliCall(LoadModel(1)) /\ UNCHANGED <<fvars, lvars>>
    \/ CliCall(Dispatch(1)) /\ UNCHANGED <<fvars, lvars>>
    \/ PrintResult /\ UNCHANGED <<fvars, lvars, svars>>
    \/ Uncaught /\ UNCHANGED <<fvars, lvars, svars>>

SpecCli == InitCli /\ [][NextCli]_vars

---------------------------------------------------------------------------
(* Properties of the lexicon scorer, under Spec *)

Labels == {"positive", "negative", "neutral"}

\* the score before the clamp: the sum over the length divisor
Unclamped == [a |-> score, q |-> Divisor2(Len(tokens))]

LabelOf(r) == label_from_score(r, Real(POS_THRESHOLD), Real(NEG_THRESHOLD))

\* the places of a raw text where a token ends
TokenEnds(t) ==
    {k \in 1..Len(t) :
        t[k] \notin WHITESPACE /\ (k = Len(t) \/ t[k + 1] \in WHITESPACE)}

\* the text with one "!" put behind the token that ends at k
AppendBang(t, k) == SubSeq(t, 1, k) \o <<"!">> \o SubSeq(t, k + 1, Len(t))

\* the text with a glyph added as a last token of its own
AppendGlyph(t, g) == t \o <<" ", g>>

NoEmoji(t) == \A e \in EMOJI_POS \cup EMOJI_NEG : ~Contains(t, e)

\* C1: for every text the value analyze_fallback_score returns lies in [-1, 1].
C1_ScoreInUnitRange ==
    pc = "done" => Leq(Real(-100), result) /\ Leq(result, Real(100))

\* a call whose sum over the divisor exceeds 1 has returned
C1_Witness == pc = "done" /\ Lt(Real(100), Unclamped)

\* C5: for every negator g, "g p" scores below 0 with label negative for every
\* positive word p, and "g q" scores above 0 with label positive for every
\* negative word q.
C5_NegationFlips ==
    pc = "done" =>
        \A g \in NEGATORS :
            /\ \A p \in POS_WORDS :
                  text = <<g, " ", p>> =>
                      Lt(result, Real(0)) /\ LabelOf(result) = "negative"
            /\ \A q \in NEG_WORDS :
                  text = <<g, " ", q>> =>
                      Lt(Real(0), result) /\ LabelOf(result) = "positive"

\* C6: for every positive or negative word w, "b w" has a strictly larger
\* magnitude than "w" for every booster b, and "d w" a strictly smaller one for
\* every dampener d.
C6_BoostDampenMagnitude ==
    pc = "done" =>
        \A w \in POS_WORDS \cup NEG_WORDS :
            /\ \A b \in BOOSTERS :
                  text = Spell(b) \o <<" ", w>> =>
                      Lt(Abs(analyze_fallback_score(<<w>>)), Abs(result))
            /\ \A d \in DAMPENERS :
                  text = Spell(d) \o <<" ", w>> =>
                      Lt(Abs(result), Abs(analyze_fallback_score(<<w>>)))

\* C7 as claimed: appending one "!" to any token of a text gives a strictly
\* greater score.
C7_BangStrictlyIncreases ==
    pc = "done" =>
        \A k \in TokenEnds(text) :
            Lt(result, analyze_fallback_score(AppendBang(text, k)))

\* C7 as amended: appending one "!" to any token never lowers the score, and
\* raises it strictly whenever the score before is below 1 and the score after
\* is above -1.
C7_BangIncreasesUnlessClamped ==
    pc = "done" =>
        \A k \in TokenEnds(text) :
            LET after == analyze_fallback_score(AppendBang(text, k))
            IN /\ Leq(result, after)
               /\ (Lt(result, Real(100)) /\ Lt(Real(-100), after)) => Lt(result, after)

\* a text with "!" already in it and a lexicon word, whose score one more "!"
\* raises strictly
C7_Witness ==
    /\ pc = "done"
    /\ Contains(text, "!")
    /\ Contains(text, "good")
    /\ \E k \in TokenEnds(text) :
          Lt(result, analyze_fallback_score(AppendBang(text, k)))

\* C8 as claimed: a text whose label is neutral gets the label positive with
\* any positive glyph added and the label negative with any negative glyph added.
C8_GlyphDecidesLabel ==
    (pc = "done" /\ NoEmoji(text) /\ LabelOf(result) = "neutral") =>
        /\ \A g \in EMOJI_POS : analyze_fallback(AppendGlyph(text, g)) = "positive"
        /\ \A g \in EMOJI_NEG : analyze_fallback(AppendGlyph(text, g)) = "negative"

\* C8 as amended: for a text without glyphs whose label is neutral, a positive
\* glyph appended as a last token of its own gives the label positive when the
\* score was not below 0, and a negative glyph gives the label negative when the
\* score was not above 0, provided the text then has at most 8 tokens.
C8_GlyphDecidesShortText ==
    (pc = "done" /\ NoEmoji(text) /\ LabelOf(result) = "neutral"
        /\ Len(tokens) + 1 <= 8) =>
        /\ Leq(Real(0), result) =>
              \A g \in EMOJI_POS : analyze_fallback(AppendGlyph(text, g)) = "positive"
        /\ Leq(result, Real(0)) =>
              \A g \in EMOJI_NEG : analyze_fallback(AppendGlyph(text, g)) = "negative"

\* a neutral text of several tokens that a negative glyph turns negative
C8_Witness ==
    /\ pc = "done" /\ NoEmoji(text) /\ LabelOf(result) = "neutral"
    /\ Len(tokens) >= 4 /\ Len(tokens) + 1 <= 8
    /\ Leq(result, Real(0))
    /\ analyze_fallback(AppendGlyph(text, "U+1F621")) = "negative"

\* C10: no word belongs to two of the five lexicons, so the order of the
\* scorer's branches never decides how the token at hand is classified.
C10_LexiconsDisjoint ==
    (pc = "loop" /\ i <= Len(tokens)) =>
        LET word == StripPunct(tokens[i])
        IN Cardinality({L \in {POS_WORDS, NEG_WORDS, NEGATORS, BOOSTERS, DAMPENERS} :
                           InLexicon(word, L)}) <= 1

---------------------------------------------------------------------------
(* Properties of normalize and tokenize, under Spec *)

\* text.upper()
UpperAll(t) == [k \in 1..Len(t) |-> Upper(t[k])]

\* re-casings of a text: all upper, all lower, one symbol upper
Recasings(t) ==
    {UpperAll(t), LowerAll(t)} \cup {[t EXCEPT ![k] = Upper(t[k])] : k \in 1..Len(t)}

\* the cased chunks of the text are among those whose forms are modelled
CaseModelled(t) ==
    \A k \in 1..Len(t) :
        t[k] \in LETTERS \cup WHITESPACE \cup STRIP_CHARS \cup EMOJI_POS \cup EMOJI_NEG

IsAscii(t) == \A k \in 1..Len(t) : t[k] \notin NON_ASCII

\* C11 as claimed: normalize is idempotent and gives the same string for every
\* re-casing of a text, and tokenize(normalize(x)) is tokenize(x).
C11_NormalizeCaseInsensitive ==
    (pc = "loop" /\ i = 1) =>
        /\ normalize(normalized) = normalized
        /\ tokens = tokenize(text)
        /\ CaseModelled(text) => \A r \in Recasings(text) : normalize(r) = normalized

\* C11 as amended: normalize is idempotent and tokenize(normalize(x)) is
\* tokenize(x) for every text; normalize gives the same string for every
\* re-casing of an ASCII text.
C11_NormalizeAsciiCaseInsensitive ==
    (pc = "loop" /\ i = 1) =>
        /\ normalize(normalized) = normalized
        /\ tokens = tokenize(text)
        /\ (CaseModelled(text) /\ IsAscii(text)) =>
              \A r \in Recasings(text) : normalize(r) = normalized

\* an ASCII text in mixed case with runs of whitespace has been normalized
C11_Witness ==
    /\ pc = "loop" /\ i = 1
    /\ CaseModelled(text) /\ IsAscii(text)
    /\ Len(text) > Len(normalized) + 2
    /\ LowerAll(text) # text
    /\ UpperAll(text) # text
    /\ Len(tokens) = 2

---------------------------------------------------------------------------
(* Properties of the modifier flags, under Spec *)

\* which branch of the loop body a token takes
Kind(token) ==
    LET word == StripPunct(token)
    IN IF InLexicon(word, NEGATORS) THEN "negator"
       ELSE IF InLexicon(word, BOOSTERS) THEN "booster"
       ELSE IF InLexicon(word, DAMPENERS) THEN "dampener"
       ELSE "word"

\* a modifier of this kind stands in the run of modifiers that ends just
\* before token j
Pending(toks, j, kind) ==
    \E k \in 1..(j - 1) :
        /\ Kind(toks[k]) = kind
        /\ \A m \in k..(j - 1) : Kind(toks[m]) # "word"

\* what token j adds to the score: its base score under the modifiers of the
\* run before it, each kind once
Contribution(toks, j) ==
    IF Kind(toks[j]) # "word" THEN 0
    ELSE LET w0 == WordScore(StripPunct(toks[j]))
             w1 == IF Pending(toks, j, "negator") THEN -w0 ELSE w0
             w2 == IF Pending(toks, j, "booster") THEN (w1 * 18) \div 10 ELSE w1
         IN IF Pending(toks, j, "dampener") THEN (w2 * 5) \div 10 ELSE w2

RECURSIVE SumContribution(_, _)
SumContribution(toks, n) ==
    IF n = 0 THEN 0 ELSE SumContribution(toks, n - 1) + Contribution(toks, n)

NegatorWithin2(toks, j) ==
    \E k \in 1..(j - 1) : k >= j - 2 /\ Kind(toks[k]) = "negator"

\* C14: a positive or negative lexicon word with a negator among the 2 tokens
\* before it changes the score against its own sign.
C14_NegationWindow ==
    [][(/\ pc = "loop" /\ i <= Len(tokens)
        /\ Kind(tokens[i]) = "word"
        /\ WordScore(StripPunct(tokens[i])) # 0
        /\ NegatorWithin2(tokens, i))
       => (score' - score) * WordScore(StripPunct(tokens[i])) < 0]_vars

---------------------------------------------------------------------------
(* Properties of label_from_score, under SpecLabel *)

\* C9: label_from_score returns exactly one of the three labels: positive iff
\* score >= pos; negative iff score < pos and score <= neg; neutral otherwise.
\* Both boundaries are inclusive and the positive test wins when neg >= pos.
C9_LabelCases ==
    label # "none" =>
        /\ label \in Labels
        /\ label = "positive" <=> lscore >= lpos
        /\ label = "negative" <=> (lscore < lpos /\ lscore <= lneg)
        /\ label = "neutral" <=> (lscore < lpos /\ lscore > lneg)

\* a score on the positive boundary, with the negative threshold above it
C9_Witness == label = "positive" /\ lscore = lpos /\ lneg > lpos

---------------------------------------------------------------------------
(* Properties of the strategy selector, under SpecSeq and SpecConc *)

\* C2: the first call, whose model_path holds no usable model (missing,
\* unreadable or incompatible), returns the fallback's result for its text:
\* no exception escapes.
C2_LoadProblemFallsBack ==
    [][\A t \in Threads :
          (tpc[t] = "dispatch" /\ tpc'[t] = "idle" /\ completed = 0
              /\ storage[targ[t].model_path] # "valid")
          => tret'[t] = Fallback(targ[t])]_vars

\* C3: in a sequential series of calls, once the first call has returned no
\* step probes or loads or writes the cache, and every later call uses the
\* outcome of the first one, whatever model_path it passes.
C3_ProbeOnlyInFirstCall ==
    [][completed >= 1 =>
          /\ probes' = probes
          /\ loads' = loads
          /\ _MODEL_CACHE' = _MODEL_CACHE
          /\ \A t \in Threads :
                (tpc[t] = "dispatch" /\ tpc'[t] = "idle") => tmodel[t] = firstOutcome]_vars

\* a later call passes the path of a valid model and still uses the failure
\* the first call cached
C3_Witness ==
    /\ completed >= 1
    /\ tpc[1] = "dispatch"
    /\ storage[targ[1].model_path] = "valid"
    /\ tmodel[1] = "None" /\ firstOutcome = "None"
    /\ probes = 1

\* C4: with concurrent first calls the storage is probed at most once, the
\* model loaded at most once and the cache written at most once.
C4_ProbeAtMostOnce == probes <= 1 /\ loads <= 1 /\ cacheWrites <= 1

\* C15: with a loadable model at every path, the calls that have returned all
\* used the same backend, whatever the interleaving of the callers.
C12_TEXTS ==
    [positive |-> <<"I", " ", "love", " ", "pizza", "!">>,
     negative |-> <<"This", " ", "is", " ", "terrible">>,
     neutral |-> <<"It", " ", "works", " ", "fine">>]

\* the process ran in label mode on a text, with no model artifact at any path
LabelModeNoModel ==
    /\ cpc = "exited"
    /\ environ.ENABLE_HTTP # "1" /\ ~argv.test /\ ~argv.score
    /\ argv.text # <<>>
    /\ \A p \in Paths : storage[p] = "missing"

\* C12: with no model artifact, the command line in label mode exits with 0 and
\* prints 'positive' for "I love pizza!", 'negative' for "This is terrible"
\* and 'neutral' for "It works fine".
C12_CliLabels ==
    LabelModeNoModel =>
        /\ exit_code = 0
        /\ \A l \in {"positive", "negative", "neutral"} :
              argv.text = C12_TEXTS[l] => stdout = [line |-> "label", label |-> l]

C15_SameBackend ==
    (\A p \in Paths : storage[p] = "valid") =>
        \A t, u \in Threads :
            (tret[t].kind = "return" /\ tret[u].kind = "return") =>
                tret[t].backend = tret[u].backend

===========================================================================
